---- MODULE Spec2Model ----
(***************************************************************************)
(* Model of omron_elite_plus.py: the ElitePlus session (read, write,       *)
(* command, wakeup, shutdown, clock, clear, count, measurements) driven by *)
(* main() inside its "with ElitePlus() as meter" block.                    *)
(*                                                                         *)
(* The program is sequential.  Its position is a stack of frame labels    *)
(* (bottom = main's position, top = the function now running); every      *)
(* action performs at most one USB transfer.  The USB device is the        *)
(* environment: it queues reply chunks on the IN endpoint when a packet is *)
(* written, and any transfer may fail with usb.core.USBError.              *)
(***************************************************************************)
EXTENDS Integers, Sequences, FiniteSets, TLC

VARIABLES
    stack,      \* call stack of frame labels, bottom first
    entered,    \* __enter__ has returned: the body of the with block was entered (history)
    rxq,        \* chunks waiting on IN endpoint 0x81 (each a sequence of at most 8 bytes)
    data,       \* read(): the accumulator
    chunks,     \* read(): the chunks this call has consumed (history)
    nreads,     \* read(): device.read transfers this call has attempted (history)
    ret,        \* value a function has returned and its caller has not yet used
    exc,        \* exception propagating to / out of main ("none" when there is none)
    active,     \* self.active: "unset" (attribute never assigned), "true" or "false"
    i,          \* wakeup(): iterations of the retry loop started so far
    cmdarg,     \* command(): the joined argument bytes
    gen,        \* the measurements() generator: its suspended position and locals
    out,        \* the Measurement values the generator has yielded (history)
    log,        \* write()/read() calls of the current top-level operation (history)
    device,     \* the USB device: what it stores, or that it answers anything
    session     \* what the session has done so far on the transport (history)

vars == <<stack, entered, rxq, data, chunks, nreads, ret, exc, active, i,
          cmdarg, gen, out, log, device, session>>

-----------------------------------------------------------------------------
(* Bounds of the model.                                                    *)

\* largest record count the modelled device reports
MaxCount == 2
\* longest byte string handed to write() on its own
MaxWriteLen == 257
\* the device queues a reply only while at most this many chunks are unread
MaxBacklog == 0

-----------------------------------------------------------------------------
(* Python helpers.                                                         *)

Min(a, b) == IF a < b THEN a ELSE b

\* s[a:b] of a bytes object, 0 <= a, 0 <= b
Slice(s, a, b) == SubSeq(s, a + 1, Min(b, Len(s)))

\* s[a:-1]
SliceToLast(s, a) == SubSeq(s, a + 1, Len(s) - 1)

\* the literal b"OK"
OKMarker == <<79, 75>>

\* command literals
GCL00 == <<71, 67, 76, 48, 48>>
MCL00 == <<77, 67, 76, 48, 48>>
CNT00 == <<67, 78, 84, 48, 48>>
END00 == <<69, 78, 68, 48, 48>>
MES00 == <<77, 69, 83, 0, 0>>
\* 7 * b"\x00"
Zero7 == <<0, 0, 0, 0, 0, 0, 0>>

\* range(10) of the wakeup loop
WakeTries == 10

\* values returned by functions: None, a bytes object, an int/datetime, or a
\* swallowed USBError
None == [tag |-> "None", val |-> <<>>, num |-> 0]
Bytes(b) == [tag |-> "bytes", val |-> b, num |-> 0]
Num(n) == [tag |-> "num", val |-> <<>>, num |-> n]
Caught == [tag |-> "USBError", val |-> <<>>, num |-> 0]

Top == stack[Len(stack)]
Pop(s) == SubSeq(s, 1, Len(s) - 1)
\* the stack with its top frame replaced by the frames fs
Replace(s, fs) == Pop(s) \o fs

-----------------------------------------------------------------------------
(* datetime(year, month, day, hour, minute, second)                        *)

IsLeap(y) == (y % 4 = 0) /\ ((y % 100 # 0) \/ (y % 400 = 0))

DaysInMonth(y, m) ==
    IF m = 2 THEN (IF IsLeap(y) THEN 29 ELSE 28)
    ELSE IF m \in {4, 6, 9, 11} THEN 30 ELSE 31

\* the constructor raises ValueError unless every field is in range
ValidDateTime(y, mo, d, h, mi, s) ==
    /\ y \in 1..9999
    /\ mo \in 1..12
    /\ d \in 1..DaysInMonth(y, mo)
    /\ h \in 0..23
    /\ mi \in 0..59
    /\ s \in 0..59

RECURSIVE DaysBeforeMonth(_, _)
DaysBeforeMonth(y, m) ==
    IF m <= 1 THEN 0 ELSE DaysBeforeMonth(y, m - 1) + DaysInMonth(y, m - 1)

LeapsUpTo(y) == (y \div 4) - (y \div 100) + (y \div 400)

\* a datetime as seconds since 2000-01-01 00:00:00 (years from 2000 on)
ToSeconds(y, mo, d, h, mi, s) ==
    LET days == 365 * (y - 2000) + (LeapsUpTo(y - 1) - LeapsUpTo(1999))
                + DaysBeforeMonth(y, mo) + (d - 1)
    IN  ((days * 24 + h) * 60 + mi) * 60 + s

-----------------------------------------------------------------------------
(* The device (environment).  A reply is the sequence of chunks the device *)
(* queues on the IN endpoint after a packet was written to it.             *)

\* reply to CNT00: payload byte 2 holds the count
CountReply(n) == << <<6, 79, 75, 0, 0, n, 0>> >>

\* reply to GCL00: payload bytes 1..6 are year-2000, month, day, hour, minute, second
ClockReply(mo, mi) == << <<7, 79, 75, 0, 24, mo, 15, 10>>, <<3, mi, 0, 0>> >>

\* reply to MES: payload bytes 1..6 the date, bytes 9..11 systolic, diastolic, pulse
RecordReply(mo, d, sys) ==
    << <<7, 79, 75, 0, 24, mo, d, 10>>, <<7, 30, 0, 0, 0, sys, 80, 60>>, <<1, 0>> >>

\* replies that carry no well-formed answer
Faulty ==
    {   <<>>,                                   \* the device stays silent
        << <<>> >>,                             \* a zero-length transfer
        << <<0, 79, 75>> >>,                    \* leading length byte 0
        << <<8, 79, 75, 1, 2, 3, 4, 5>> >>,     \* leading length byte 8
        << <<3, 78, 79, 0>> >>,                 \* no OK marker
        << <<3, 79, 75, 0>> >>,                 \* OK with an empty payload
        << <<7, 79, 75, 9>>, <<2, 5, 0>> >>,    \* chunk shorter than its length byte
        << <<7, 79, 75, 1, 2, 3, 4, 5>>, <<0, 0>> >>,  \* length byte 0 after a full chunk
        << <<4, 79, 75, 1, 0>>, <<3, 79, 75, 0>> >>  \* a final chunk with one more queued
    }

\* The device is either one that may answer a packet with anything (static is
\* FALSE), or one that stores a record count and a clock and answers every
\* command from what it stores (static is TRUE).
AnyDevice == [static |-> FALSE, count |-> 0, minute |-> 0]
StaticDevice(n, mi) == [static |-> TRUE, count |-> n, minute |-> mi]
Devices == {AnyDevice} \cup {StaticDevice(n, mi) : n \in 0..MaxCount, mi \in {29, 30}}

\* what a device that may answer anything queues after the command d
AnyReplies(d) ==
    Faulty \cup
    (   IF d = GCL00 THEN { ClockReply(3, 30), ClockReply(3, 29), ClockReply(13, 30) }
        ELSE IF d = CNT00 THEN { CountReply(n) : n \in 0..MaxCount }
        ELSE IF Slice(d, 0, 5) = MES00
             THEN { RecordReply(3, 15, 120), RecordReply(3, 16, 121),
                    RecordReply(13, 15, 122), RecordReply(3, 0, 123),
                    ClockReply(3, 30) }
        ELSE {} )

\* the reply a static device dv gives to the command d when it answers: to the
\* zero packets that it is awake, to a fetch the record of that index
StaticReply(dv, d) ==
    IF d = GCL00 THEN ClockReply(3, dv.minute)
    ELSE IF d = CNT00 THEN CountReply(dv.count)
    ELSE IF Slice(d, 0, 5) = MES00 /\ Len(d) = 7 /\ d[6] < dv.count
         THEN RecordReply(3, 15 + d[6], 120 + d[6])
    ELSE IF d = Zero7 THEN << <<6, 79, 75, 0, 0, 9, 0>> >>
    ELSE IF d = MCL00 THEN << <<3, 79, 75, 0>> >>
    ELSE <<>>

\* what the device may queue after the command d was written to it (a static
\* device may also stay silent: asleep, or too slow for the timeout)
Replies(d) ==
    IF device.static THEN {<<>>, StaticReply(device, d)} ELSE AnyReplies(d)

\* the device after the command d reached it: MCL00 erases the stored records
DeviceAfter(dv, d, ok) ==
    IF dv.static /\ ok /\ d = MCL00 THEN [dv EXCEPT !.count = 0] ELSE dv

\* values datetime.now() may return, in seconds since 2000-01-01
Nows == { ToSeconds(2024, 3, 15, 10, 30, 0), ToSeconds(2024, 3, 15, 10, 31, 30) }

\* the IN queue after a packet was written: the device queues its reply
Deliver(q, ok, reply) == IF ok /\ Len(q) <= MaxBacklog THEN q \o reply ELSE q

-----------------------------------------------------------------------------
(* History of the transport-facing calls of the current top-level operation *)

LogWrite(l, d, ok) == Append(l, [op |-> "write", pkt |-> d, ok |-> ok])
LogRead(l) == Append(l, [op |-> "read", pkt |-> <<>>, ok |-> TRUE])
LogCommand(l, d) == Append(l, [op |-> "command", pkt |-> d, ok |-> TRUE])

\* the session before anything was done: no connect() completed, no transfer made
NoTransfer == [op |-> "none", pkt |-> <<>>, ok |-> TRUE]
\* (counts and clocks are the values count() and clock() have returned from a
\* static device, each with whether the IN endpoint held nothing unread when the
\* call was made; ncount and nclock count those for which it did; insync tells it
\* of the call now running)
NewSession ==
    [nconnect |-> 0, last |-> NoTransfer, prev |-> NoTransfer, cleared |-> FALSE,
     insync |-> FALSE, counts |-> {}, ncount |-> 0, clocks |-> {}, nclock |-> 0]

\* the session after one more transfer e on the device: last and prev are the two
\* most recent transfers
Transfer(s, e) == [s EXCEPT !.prev = s.last, !.last = e]

-----------------------------------------------------------------------------
(* Exceptions                                                              *)

\* main positions inside the body of "with ElitePlus() as meter:"
BodyFrames == {"main_time", "main_time_ret", "main_number", "main_number_ret",
               "main_read", "main_for", "main_clear", "main_clear_ret"}

\* mutant: no with block, the exception leaves main at once
UnwindWithoutExit(s) == <<"raised">>

\* mutant: an exception of the read loop only ends the loop
UnwindToClear(s) ==
    IF s[1] = "main_for" THEN <<"main_clear">>
    ELSE IF s[1] \in BodyFrames THEN <<"main_exit">> ELSE <<"raised">>

\* where an exception nothing catches lands: inside the with body __exit__ runs
\* (and the exception is re-raised after it), elsewhere it leaves main
Unwind(s) == IF s[1] \in BodyFrames THEN <<"main_exit">> ELSE <<"raised">>

\* an exception passing through the running generator finishes it
GenAfterRaise(g) ==
    IF g.pc = "running" THEN [g EXCEPT !.pc = "done", !.raised = TRUE] ELSE g

Raise(e) ==
    /\ exc' = e
    /\ stack' = Unwind(stack)
    /\ gen' = GenAfterRaise(gen)

-----------------------------------------------------------------------------
(* ElitePlus.write                                                         *)

\* packet = bytes([len(data), *data])
Packet(d) == <<Len(d)>> \o d

\* mutant: assert len(data) <= 256
WriteOutcomesUpTo256(d) ==
    IF Len(d) <= 256 THEN {"ok", "USBError"} ELSE {"AssertionError", "ValueError"}

\* assert len(data) < 256, then device.write, which may raise USBError
\* (with assertions compiled out, bytes([256, ...]) raises ValueError instead)
WriteOutcomes(d) ==
    IF Len(d) < 256 THEN {"ok", "USBError"} ELSE {"AssertionError", "ValueError"}

\* write(d) with outcome o got as far as device.write
Transferred(o) == o \in {"ok", "USBError"}

\* the log after write(d) ended with outcome o: the assertion precedes the transfer
LogAfterWrite(l, d, o) ==
    IF Transferred(o) THEN LogWrite(l, Packet(d), o = "ok") ELSE l

\* the session after write(d) ended with outcome o
SessionAfterWrite(s, d, o) ==
    LET t == IF Transferred(o)
             THEN Transfer(s, [op |-> "write", pkt |-> Packet(d), ok |-> o = "ok"])
             ELSE s
    IN  [t EXCEPT !.cleared = @ \/ (Transferred(o) /\ d = MCL00)]

\* write(data) called on its own: one device.write, unless the assertion fails
Write ==
    /\ Top = "write"
    /\ UNCHANGED <<device, entered, data, chunks, nreads, ret, active, i, cmdarg, out>>
    /\ \E o \in WriteOutcomes(cmdarg), reply \in Replies(cmdarg) :
        /\ rxq' = Deliver(rxq, o = "ok", reply)
        /\ log' = LogAfterWrite(log, cmdarg, o)
        /\ session' = SessionAfterWrite(session, cmdarg, o)
        /\ IF o = "ok"
           THEN /\ stack' = <<"write_ret">>
                /\ UNCHANGED <<exc, gen>>
           ELSE Raise(o)

-----------------------------------------------------------------------------
(* ElitePlus.read                                                          *)

\* mutant: range(0, 8) in place of range(1, 8)
BadChunkFromZero(chunk) == chunk = <<>> \/ chunk[1] \notin 0..7

\* not chunk or chunk[0] not in range(1, 8)
BadChunk(chunk) == chunk = <<>> \/ chunk[1] \notin 1..7

\* chunk[1 : chunk[0] + 1]
Fragment(chunk) == Slice(chunk, 1, chunk[1] + 1)

\* mutant: chunk[0] < 6: break
LastChunkBelowSix(chunk) == chunk[1] < 6

\* chunk[0] < 7: break
LastChunk(chunk) == chunk[1] < 7

\* mutant: data[2:] in place of data[2:-1]
ReadResultKeepsLast(d) ==
    IF Slice(d, 0, 2) = OKMarker THEN Bytes(Slice(d, 2, Len(d))) ELSE None

\* if data[0:2] == b"OK": return data[2:-1]   (else falls off the end: None)
ReadResult(d) == IF Slice(d, 0, 2) = OKMarker THEN Bytes(SliceToLast(d, 2)) ELSE None

\* mutant: the drain read of wakeup() outside any try block
CatchingFramesLoopOnly == {"wakeup_r"}

\* mutant: every caller of read() catches usb.core.USBError
CatchingFramesEverywhere ==
    {"wakeup_drain", "wakeup_r", "clock_ret", "count_ret", "clear_ret", "gen_fetch_ret"}

\* frames whose try block around self.read() catches usb.core.USBError
CatchingFrames == {"wakeup_drain", "wakeup_r"}

\* start of a call of read(): data = bytes()
EnterRead ==
    /\ data' = <<>>
    /\ chunks' = <<>>
    /\ nreads' = 0

\* the caller has taken the result of read(): its locals are gone
LeaveRead ==
    /\ data' = <<>>
    /\ chunks' = <<>>
    /\ nreads' = 0

\* one turn of the while loop: one device.read(0x81, 8, timeout)
ReadChunk ==
    /\ Top = "read"
    /\ nreads' = nreads + 1
    /\ UNCHANGED <<device, entered, active, i, cmdarg, out, log>>
    /\ \E fail \in BOOLEAN :
      /\ session' = Transfer(session, [op |-> "read", pkt |-> <<>>,
                                       ok |-> ~(fail \/ rxq = <<>>)])
      /\ IF fail \/ rxq = <<>>
        THEN \* timeout or I/O failure: usb.core.USBError
             /\ UNCHANGED <<rxq, data, chunks>>
             /\ IF stack[Len(stack) - 1] \in CatchingFrames
                THEN /\ stack' = Pop(stack)
                     /\ ret' = Caught
                     /\ UNCHANGED <<exc, gen>>
                ELSE /\ Raise("USBError")
                     /\ UNCHANGED ret
        ELSE LET chunk == Head(rxq)
                 d2 == data \o Fragment(chunk)
             IN  /\ rxq' = Tail(rxq)
                 /\ chunks' = Append(chunks, chunk)
                 /\ UNCHANGED <<exc, gen>>
                 /\ IF BadChunk(chunk)
                    THEN /\ stack' = Pop(stack)
                         /\ ret' = None
                         /\ UNCHANGED data
                    ELSE /\ data' = d2
                         /\ IF LastChunk(chunk)
                            THEN /\ stack' = Pop(stack)
                                 /\ ret' = ReadResult(d2)
                            ELSE UNCHANGED <<stack, ret>>

-----------------------------------------------------------------------------
(* ElitePlus.command                                                       *)

\* mutant: the outcome of the write is ignored and the read attempted anyway
CommandReadsAfterFailedWrite ==
    /\ Top = "command"
    /\ UNCHANGED <<entered, ret, active, i, cmdarg, out, exc, gen>>
    /\ \E o \in WriteOutcomes(cmdarg), reply \in Replies(cmdarg) :
        /\ rxq' = Deliver(rxq, o = "ok", reply)
        /\ device' = DeviceAfter(device, cmdarg, o = "ok")
        /\ session' = SessionAfterWrite(session, cmdarg, o)
        /\ log' = LogRead(LogAfterWrite(LogCommand(log, cmdarg), cmdarg, o))
        /\ stack' = Replace(stack, <<"read">>)
        /\ EnterRead

\* mutant: the command is written and no response is read
CommandWithoutRead ==
    /\ Top = "command"
    /\ UNCHANGED <<entered, active, i, cmdarg, out, data, chunks, nreads>>
    /\ \E o \in WriteOutcomes(cmdarg), reply \in Replies(cmdarg) :
        /\ rxq' = Deliver(rxq, o = "ok", reply)
        /\ device' = DeviceAfter(device, cmdarg, o = "ok")
        /\ session' = SessionAfterWrite(session, cmdarg, o)
        /\ log' = LogAfterWrite(LogCommand(log, cmdarg), cmdarg, o)
        /\ IF o = "ok"
           THEN /\ stack' = Pop(stack)
                /\ ret' = None
                /\ UNCHANGED <<exc, gen>>
           ELSE /\ Raise(o)
                /\ UNCHANGED ret

\* self.write(*command); return self.read()
Command ==
    /\ Top = "command"
    /\ UNCHANGED <<entered, ret, active, i, cmdarg, out>>
    /\ \E o \in WriteOutcomes(cmdarg), reply \in Replies(cmdarg) :
        /\ rxq' = Deliver(rxq, o = "ok", reply)
        /\ device' = DeviceAfter(device, cmdarg, o = "ok")
        /\ session' = SessionAfterWrite(session, cmdarg, o)
        /\ IF o = "ok"
           THEN /\ log' = LogRead(LogAfterWrite(LogCommand(log, cmdarg), cmdarg, o))
                /\ stack' = Replace(stack, <<"read">>)
                /\ EnterRead
                /\ UNCHANGED <<exc, gen>>
           ELSE /\ log' = LogAfterWrite(LogCommand(log, cmdarg), cmdarg, o)
                /\ Raise(o)
                /\ UNCHANGED <<data, chunks, nreads>>

-----------------------------------------------------------------------------
(* ElitePlus.wakeup                                                        *)

\* "if response:" - a non-empty bytes object
Truthy(r) == r.tag = "bytes" /\ r.val # <<>>

\* try: response = self.read()      (the drain, before the loop)
Wakeup ==
    /\ Top = "wakeup"
    /\ stack' = Replace(stack, <<"wakeup_drain", "read">>)
    /\ log' = LogRead(log)
    /\ i' = 0
    /\ EnterRead
    /\ UNCHANGED <<device, session, entered, rxq, ret, exc, active, cmdarg, gen, out>>

\* except usb.core.USBError: pass;  then the first turn of "for _ in range(10)"
WakeupDrained ==
    /\ Top = "wakeup_drain"
    /\ stack' = Replace(stack, <<"wakeup_w1">>)
    /\ i' = 1
    /\ ret' = None
    /\ LeaveRead
    /\ UNCHANGED <<device, session, entered, rxq, exc, active, cmdarg, gen, out, log>>

\* the first self.write(7 * b"\x00") of an iteration: outside the try block
WakeupWrite1 ==
    /\ Top = "wakeup_w1"
    /\ UNCHANGED <<device, entered, data, chunks, nreads, ret, active, i, cmdarg, out>>
    /\ \E o \in WriteOutcomes(Zero7), reply \in Replies(Zero7) :
        /\ rxq' = Deliver(rxq, o = "ok", reply)
        /\ session' = SessionAfterWrite(session, Zero7, o)
        /\ log' = LogAfterWrite(log, Zero7, o)
        /\ IF o = "ok"
           THEN /\ stack' = Replace(stack, <<"wakeup_w2">>)
                /\ UNCHANGED <<exc, gen>>
           ELSE Raise(o)

\* the second self.write(7 * b"\x00"), then try: response = self.read()
WakeupWrite2 ==
    /\ Top = "wakeup_w2"
    /\ UNCHANGED <<device, entered, ret, active, i, cmdarg, out>>
    /\ \E o \in WriteOutcomes(Zero7), reply \in Replies(Zero7) :
        /\ rxq' = Deliver(rxq, o = "ok", reply)
        /\ session' = SessionAfterWrite(session, Zero7, o)
        /\ IF o = "ok"
           THEN /\ log' = LogRead(LogAfterWrite(log, Zero7, o))
                /\ stack' = Replace(stack, <<"wakeup_r", "read">>)
                /\ EnterRead
                /\ UNCHANGED <<exc, gen>>
           ELSE /\ log' = LogAfterWrite(log, Zero7, o)
                /\ Raise(o)
                /\ UNCHANGED <<data, chunks, nreads>>

\* mutant: one turn too many
MoreTriesOffByOne(n) == n <= WakeTries

\* the loop goes on while range(10) has values left
MoreTries(n) == n < WakeTries

\* no "break" and another turn of the loop: the response was empty, None or an error
KeepTrying(r, n) == ~Truthy(r) /\ MoreTries(n)

\* the value self.active has once the response r was examined
ActiveAfter(a, r) == IF Truthy(r) THEN "true" ELSE a

\* except USBError: pass / else: if response: self.active = True; break
WakeupResponse ==
    /\ Top = "wakeup_r"
    /\ active' = ActiveAfter(active, ret)
    /\ UNCHANGED <<device, session, entered, rxq, exc, cmdarg, gen, out, log>>
    /\ IF KeepTrying(ret, i)
       THEN /\ stack' = Replace(stack, <<"wakeup_w1">>)
            /\ i' = i + 1
            /\ ret' = None
            /\ LeaveRead
       ELSE /\ stack' = Pop(stack)
            /\ UNCHANGED <<i, ret, data, chunks, nreads>>

-----------------------------------------------------------------------------
(* ElitePlus.shutdown                                                      *)

\* mutant: the flag is cleared after the write, so only when the write succeeds
ShutdownClearsFlagLast ==
    /\ Top = "shutdown"
    /\ UNCHANGED <<device, entered, data, chunks, nreads, ret, i, cmdarg, out>>
    /\ \E o \in WriteOutcomes(END00), reply \in Replies(END00) :
        /\ rxq' = Deliver(rxq, o = "ok", reply)
        /\ session' = SessionAfterWrite(session, END00, o)
        /\ log' = LogAfterWrite(log, END00, o)
        /\ IF o = "ok"
           THEN /\ stack' = Pop(stack)
                /\ active' = "false"
                /\ UNCHANGED <<exc, gen>>
           ELSE /\ Raise(o)
                /\ UNCHANGED active

\* self.active = False; self.write(b"END00")
Shutdown ==
    /\ Top = "shutdown"
    /\ active' = "false"
    /\ UNCHANGED <<device, entered, data, chunks, nreads, ret, i, cmdarg, out>>
    /\ \E o \in WriteOutcomes(END00), reply \in Replies(END00) :
        /\ rxq' = Deliver(rxq, o = "ok", reply)
        /\ session' = SessionAfterWrite(session, END00, o)
        /\ log' = LogAfterWrite(log, END00, o)
        /\ IF o = "ok"
           THEN /\ stack' = Pop(stack)
                /\ UNCHANGED <<exc, gen>>
           ELSE Raise(o)

-----------------------------------------------------------------------------
(* ElitePlus.clock, ElitePlus.count, ElitePlus.clear                       *)

\* the session when clock() or count() is called with the IN queue q
Called(s, q) == IF device.static THEN [s EXCEPT !.insync = (q = <<>>)] ELSE s

\* the session after clock() or count() returned the value v
Returned(s, values, calls, v) ==
    IF device.static
    THEN [s EXCEPT ![values] = @ \cup {[v |-> v, sync |-> s.insync]},
                   ![calls] = IF s.insync THEN @ + 1 ELSE @]
    ELSE s

\* self.command(b"GCL00")
Clock ==
    /\ Top = "clock"
    /\ stack' = Replace(stack, <<"clock_ret", "command">>)
    /\ cmdarg' = GCL00
    /\ session' = Called(session, rxq)
    /\ UNCHANGED <<device, entered, rxq, data, chunks, nreads, ret, exc, active, i, gen, out, log>>

\* what "year, ..., second = payload[1:7]; datetime(2000 + year, ...)" raises
ClockError(r) ==
    IF r.tag = "None" THEN "TypeError"
    ELSE LET f == Slice(r.val, 1, 7)
         IN  IF Len(f) # 6 THEN "ValueError"
             ELSE IF ~ValidDateTime(2000 + f[1], f[2], f[3], f[4], f[5], f[6])
                  THEN "ValueError" ELSE "none"

ClockValue(r) ==
    LET f == Slice(r.val, 1, 7)
    IN  ToSeconds(2000 + f[1], f[2], f[3], f[4], f[5], f[6])

ClockReturn ==
    /\ Top = "clock_ret"
    /\ LeaveRead
    /\ UNCHANGED <<device, entered, rxq, active, i, cmdarg, out, log>>
    /\ IF ClockError(ret) = "none"
       THEN /\ ret' = Num(ClockValue(ret))
            /\ session' = Returned(session, "clocks", "nclock", ClockValue(ret))
            /\ stack' = Pop(stack)
            /\ UNCHANGED <<exc, gen>>
       ELSE /\ Raise(ClockError(ret))
            /\ ret' = None
            /\ UNCHANGED session

\* self.command(b"CNT00")
Count ==
    /\ Top = "count"
    /\ stack' = Replace(stack, <<"count_ret", "command">>)
    /\ cmdarg' = CNT00
    /\ session' = Called(session, rxq)
    /\ UNCHANGED <<device, entered, rxq, data, chunks, nreads, ret, exc, active, i, gen, out, log>>

\* what "self.command(b"CNT00")[2]" raises
CountError(r) ==
    IF r.tag = "None" THEN "TypeError"
    ELSE IF Len(r.val) < 3 THEN "IndexError" ELSE "none"

CountValue(r) == r.val[3]

CountReturn ==
    /\ Top = "count_ret"
    /\ LeaveRead
    /\ UNCHANGED <<device, entered, rxq, active, i, cmdarg, out, log>>
    /\ IF CountError(ret) = "none"
       THEN /\ ret' = Num(CountValue(ret))
            /\ session' = Returned(session, "counts", "ncount", CountValue(ret))
            /\ stack' = Pop(stack)
            /\ UNCHANGED <<exc, gen>>
       ELSE /\ Raise(CountError(ret))
            /\ ret' = None
            /\ UNCHANGED session

\* self.command(b"MCL00")
Clear ==
    /\ Top = "clear"
    /\ stack' = Replace(stack, <<"clear_ret", "command">>)
    /\ cmdarg' = MCL00
    /\ UNCHANGED <<device, session, entered, rxq, data, chunks, nreads, ret, exc, active, i, gen, out, log>>

\* the response is dropped; clear() returns None
ClearReturn ==
    /\ Top = "clear_ret"
    /\ stack' = Pop(stack)
    /\ ret' = None
    /\ LeaveRead
    /\ UNCHANGED <<device, session, entered, rxq, exc, active, i, cmdarg, gen, out, log>>

-----------------------------------------------------------------------------
(* ElitePlus.measurements (a generator)                                    *)

\* the generator before its first next(), and no generator
\* (now and clock keep the operands of the offset once it is computed; nexts
\* counts the next() calls made on it, mark is the length the log had when the
\* latest of them began, raised tells that an exception ended it)
NewGen(correct) ==
    [pc |-> "start", correct |-> correct, index |-> 0, n |-> 0, now |-> 0,
     clock |-> 0, offset |-> 0, nexts |-> 0, mark |-> 0, raised |-> FALSE]
NoGen ==
    [pc |-> "none", correct |-> FALSE, index |-> 0, n |-> 0, now |-> 0,
     clock |-> 0, offset |-> 0, nexts |-> 0, mark |-> 0, raised |-> FALSE]

\* next() is called on the generator g
CallNext(g) == [g EXCEPT !.nexts = @ + 1, !.mark = Len(log)]

\* the k-th of the arguments *record[2:7] of datetime(), 0 when it is left out
DateArg(p, k) == LET a == Slice(p, 2, 7) IN IF Len(a) >= k THEN a[k] ELSE 0

\* mutant: datetime() called outside the try block
RecordErrorNoExcept(r) ==
    IF r.tag = "None" THEN "TypeError"
    ELSE IF Len(r.val) < 2 THEN "IndexError"
    ELSE IF Len(Slice(r.val, 2, 7)) < 2 THEN "TypeError"
    ELSE IF ~ValidDateTime(2000 + r.val[2], DateArg(r.val, 1), DateArg(r.val, 2),
                           DateArg(r.val, 3), DateArg(r.val, 4), DateArg(r.val, 5))
         THEN "ValueError"
    ELSE IF Len(Slice(r.val, 9, 12)) # 3 THEN "ValueError"
    ELSE "none"

\* the exception decoding a fetched record lets through ("none": it is yielded)
RecordError(r) ==
    IF r.tag = "None" THEN "TypeError"
    ELSE IF Len(r.val) < 2 THEN "IndexError"
    ELSE IF Len(Slice(r.val, 2, 7)) < 2 THEN "TypeError"
    ELSE IF Len(Slice(r.val, 9, 12)) # 3 THEN "ValueError"
    ELSE "none"

\* try: time = datetime(2000 + record[1], *record[2:7]) / except ValueError: time = None
RecordHasTime(p) ==
    ValidDateTime(2000 + p[2], DateArg(p, 1), DateArg(p, 2), DateArg(p, 3),
                  DateArg(p, 4), DateArg(p, 5))

RecordTime(p) ==
    ToSeconds(2000 + p[2], DateArg(p, 1), DateArg(p, 2), DateArg(p, 3),
              DateArg(p, 4), DateArg(p, 5))

\* the Measurement built from payload p; "if correct_time and time:" adds the offset
Measurement(p, correct, offset) ==
    [ hasTime   |-> RecordHasTime(p),
      time      |-> IF RecordHasTime(p)
                    THEN RecordTime(p) + (IF correct THEN offset ELSE 0)
                    ELSE 0,
      systolic  |-> p[10],
      diastolic |-> p[11],
      pulse     |-> p[12] ]

\* the arguments of the fetch command: b"MES\x00\x00", bytes([index]) * 2
FetchCommand(index) == MES00 \o <<index, index>>

\* mutant: range(n + 1)
InRangeInclusive(idx, n) == idx <= n

\* "for index in range(n)": true while the range has an index left
InRange(idx, n) == idx < n

\* "for index in range(n)": fetch record idx, or finish when the range is used up
GenLoop(g, idx, n) ==
    IF InRange(idx, n)
    THEN /\ gen' = [g EXCEPT !.pc = "running", !.index = idx, !.n = n]
         /\ stack' = <<"main_for", "gen_fetch_ret", "command">>
         /\ cmdarg' = FetchCommand(idx)
    ELSE /\ gen' = [g EXCEPT !.pc = "done", !.n = n]
         /\ stack' = <<"main_clear">>
         /\ UNCHANGED cmdarg

\* the first next(): "if correct_time: offset = (datetime.now() - self.clock())..."
GenStart ==
    /\ Top = "main_for"
    /\ gen.pc = "start"
    /\ UNCHANGED <<device, session, entered, rxq, data, chunks, nreads, ret, exc, active, i, cmdarg,
                   out, log>>
    /\ IF gen.correct
       THEN \E now \in Nows :
              /\ gen' = [CallNext(gen) EXCEPT !.pc = "running", !.now = now]
              /\ stack' = <<"main_for", "gen_clock_ret", "clock">>
       ELSE /\ gen' = [CallNext(gen) EXCEPT !.pc = "running"]
            /\ stack' = <<"main_for", "gen_count_ret", "count">>

\* mutant: the device's time minus the computer's
OffsetReversed(now, clock) == clock - now

\* (datetime.now() - self.clock()).total_seconds(), in whole seconds
Offset(now, clock) == now - clock

\* offset = (now - clock).total_seconds(); then range(self.count())
GenClockReturn ==
    /\ Top = "gen_clock_ret"
    /\ gen' = [gen EXCEPT !.offset = Offset(gen.now, ret.num), !.clock = ret.num]
    /\ stack' = Replace(stack, <<"gen_count_ret", "count">>)
    /\ ret' = None
    /\ UNCHANGED <<device, session, entered, rxq, data, chunks, nreads, exc, active, i, cmdarg,
                   out, log>>

\* count() returned: the loop starts at index 0
GenCountReturn ==
    /\ Top = "gen_count_ret"
    /\ GenLoop(gen, 0, ret.num)
    /\ ret' = None
    /\ UNCHANGED <<device, session, entered, rxq, data, chunks, nreads, exc, active, i, out, log>>

\* mutant: a fetch without a response is passed over and the next record fetched
GenFetchReturnSkips ==
    /\ Top = "gen_fetch_ret"
    /\ LeaveRead
    /\ UNCHANGED <<device, session, entered, rxq, active, i, log>>
    /\ IF ret.tag = "None"
       THEN /\ GenLoop(gen, gen.index + 1, gen.n)
            /\ UNCHANGED <<exc, ret, out>>
       ELSE IF RecordError(ret) = "none"
       THEN /\ out' = Append(out, Measurement(ret.val, gen.correct, gen.offset))
            /\ gen' = [gen EXCEPT !.pc = "yielded"]
            /\ stack' = <<"main_for">>
            /\ UNCHANGED <<exc, ret, cmdarg>>
       ELSE /\ Raise(RecordError(ret))
            /\ UNCHANGED <<out, ret, cmdarg>>

\* the fetch returned: decode the record and yield it
\* (ret keeps the payload of the yielded record until the generator resumes)
GenFetchReturn ==
    /\ Top = "gen_fetch_ret"
    /\ LeaveRead
    /\ UNCHANGED <<device, session, entered, rxq, active, i, cmdarg, log>>
    /\ IF RecordError(ret) = "none"
       THEN /\ out' = Append(out, Measurement(ret.val, gen.correct, gen.offset))
            /\ gen' = [gen EXCEPT !.pc = "yielded"]
            /\ stack' = <<"main_for">>
            /\ UNCHANGED <<exc, ret>>
       ELSE /\ Raise(RecordError(ret))
            /\ UNCHANGED <<out, ret>>

\* main printed the record and asks for the next one: the generator resumes
GenResume ==
    /\ Top = "main_for"
    /\ gen.pc = "yielded"
    /\ GenLoop(CallNext(gen), gen.index + 1, gen.n)
    /\ ret' = None
    /\ UNCHANGED <<device, session, entered, rxq, data, chunks, nreads, exc, active, i, out, log>>

-----------------------------------------------------------------------------
(* ElitePlus.__init__, connect, __enter__, __exit__ and main               *)

\* The flags of settings are inputs: main tests each of them once (correct_times is
\* passed to measurements() once), so each is drawn where it is tested.

\* mutant: __init__ without its call of connect()
ConstructWithoutConnect ==
    /\ Top = "main_new"
    /\ \E found \in BOOLEAN :
         stack' = IF found THEN <<"main_enter">> ELSE <<"done_notfound">>
    /\ UNCHANGED <<device, session, entered, rxq, data, chunks, nreads, ret, exc, active, i, cmdarg,
                   gen, out, log>>

\* self.device = self.detect(...); BPMNotFoundError is caught and printed by main
Construct ==
    /\ Top = "main_new"
    /\ \E found \in BOOLEAN :
         stack' = IF found THEN <<"main_connect">> ELSE <<"done_notfound">>
    /\ UNCHANGED <<device, session, entered, rxq, data, chunks, nreads, ret, exc, active, i, cmdarg,
                   gen, out, log>>

\* the calls connect() makes on the device, in order
ConnectSteps(driverActive) ==
    (IF driverActive THEN <<"detach_kernel_driver">> ELSE <<>>)
        \o <<"set_configuration", "ctrl_transfer">>

\* connect(): any of its calls may raise USBError, which leaves main
Connect ==
    /\ Top = "main_connect"
    /\ UNCHANGED <<device, entered, rxq, data, chunks, nreads, ret, active, i, cmdarg, out>>
    /\ \E driverActive \in BOOLEAN :
        LET steps == ConnectSteps(driverActive)
        IN  \E failAt \in 0..Len(steps) :
              IF failAt = 0
              THEN /\ log' = [k \in 1..Len(steps) |->
                                [op |-> steps[k], pkt |-> <<>>, ok |-> TRUE]]
                   /\ session' = [session EXCEPT !.nconnect = @ + 1]
                   /\ stack' = <<"main_enter">>
                   /\ UNCHANGED <<exc, gen>>
              ELSE /\ log' = [k \in 1..failAt |->
                                [op |-> steps[k], pkt |-> <<>>, ok |-> k < failAt]]
                   /\ UNCHANGED session
                   /\ Raise("USBError")

\* __enter__: self.wakeup()
MainEnter ==
    /\ Top = "main_enter"
    /\ stack' = <<"main_enter_ret", "wakeup">>
    /\ log' = <<>>
    /\ UNCHANGED <<device, session, entered, rxq, data, chunks, nreads, ret, exc, active, i, cmdarg,
                   gen, out>>

\* __enter__: return self; the body of the with block starts
MainEntered ==
    /\ Top = "main_enter_ret"
    /\ stack' = <<"main_time">>
    /\ i' = 0
    /\ ret' = None
    /\ log' = <<>>
    /\ LeaveRead
    /\ entered' = TRUE
    /\ UNCHANGED <<device, session, rxq, exc, active, cmdarg, gen, out>>

\* if settings.time: print(meter.clock())
MainTime ==
    /\ Top = "main_time"
    /\ \E time \in BOOLEAN :
        stack' = IF time THEN <<"main_time_ret", "clock">> ELSE <<"main_number">>
    /\ UNCHANGED <<device, session, entered, rxq, data, chunks, nreads, ret, exc, active, i, cmdarg, gen, out, log>>

MainTimeDone ==
    /\ Top = "main_time_ret"
    /\ stack' = <<"main_number">>
    /\ ret' = None
    /\ log' = <<>>
    /\ UNCHANGED <<device, session, entered, rxq, data, chunks, nreads, exc, active, i, cmdarg, gen, out>>

\* if settings.number: print(meter.count())
MainNumber ==
    /\ Top = "main_number"
    /\ \E number \in BOOLEAN :
        stack' = IF number THEN <<"main_number_ret", "count">> ELSE <<"main_read">>
    /\ UNCHANGED <<device, session, entered, rxq, data, chunks, nreads, ret, exc, active, i, cmdarg, gen, out, log>>

MainNumberDone ==
    /\ Top = "main_number_ret"
    /\ stack' = <<"main_read">>
    /\ ret' = None
    /\ log' = <<>>
    /\ UNCHANGED <<device, session, entered, rxq, data, chunks, nreads, exc, active, i, cmdarg, gen, out>>

\* mutant: measurements() runs up to its first fetch when it is called
MainReadEager ==
    /\ Top = "main_read"
    /\ \E read \in BOOLEAN :
        IF read
        THEN \E correct_times \in {FALSE} :
               /\ stack' = <<"main_for", "gen_count_ret", "count">>
               /\ gen' = [NewGen(correct_times) EXCEPT !.pc = "running"]
        ELSE /\ stack' = <<"main_clear">>
             /\ UNCHANGED gen
    /\ UNCHANGED <<device, session, entered, rxq, data, chunks, nreads, ret, exc, active, i, cmdarg, out, log>>

\* if settings.read: for measurement in meter.measurements(settings.correct_times)
\* (calling the generator function runs none of its body)
MainRead ==
    /\ Top = "main_read"
    /\ \E read \in BOOLEAN :
        IF read
        THEN \E correct_times \in BOOLEAN :
               /\ stack' = <<"main_for">>
               /\ gen' = NewGen(correct_times)
        ELSE /\ stack' = <<"main_clear">>
             /\ UNCHANGED gen
    /\ UNCHANGED <<device, session, entered, rxq, data, chunks, nreads, ret, exc, active, i, cmdarg, out, log>>

\* if settings.clear: meter.clear()
MainClear ==
    /\ Top = "main_clear"
    /\ log' = <<>>
    /\ \E clear \in BOOLEAN :
        stack' = IF clear THEN <<"main_clear_ret", "clear">> ELSE <<"main_exit">>
    /\ UNCHANGED <<device, session, entered, rxq, data, chunks, nreads, ret, exc, active, i, cmdarg, gen, out>>

MainClearDone ==
    /\ Top = "main_clear_ret"
    /\ stack' = <<"main_exit">>
    /\ log' = <<>>
    /\ UNCHANGED <<device, session, entered, rxq, data, chunks, nreads, ret, exc, active, i, cmdarg,
                   gen, out>>

\* __exit__(*exception): self.shutdown()
MainExit ==
    /\ Top = "main_exit"
    /\ stack' = <<"main_exit_ret", "shutdown">>
    /\ log' = <<>>
    /\ ret' = None
    /\ LeaveRead
    /\ UNCHANGED <<device, session, entered, rxq, exc, active, i, cmdarg, gen, out>>

\* __exit__ returned None: an exception of the body is raised again
MainExited ==
    /\ Top = "main_exit_ret"
    /\ stack' = IF exc = "none" THEN <<"done">> ELSE <<"raised">>
    /\ UNCHANGED <<device, session, entered, rxq, data, chunks, nreads, ret, exc, active, i, cmdarg,
                   gen, out, log>>

-----------------------------------------------------------------------------

\* chunks a previous session may have left unread on the IN endpoint
StaleQueues == { <<>>, << <<3, 79, 75, 0>> >>, CountReply(1) }

Init ==
    /\ stack = <<"main_new">>
    /\ entered = FALSE
    /\ rxq \in StaleQueues
    /\ device \in Devices
    /\ session = NewSession
    /\ data = <<>>
    /\ chunks = <<>>
    /\ nreads = 0
    /\ ret = None
    /\ exc = "none"
    /\ active = "unset"
    /\ i = 0
    /\ cmdarg = <<>>
    /\ gen = NoGen
    /\ out = <<>>
    /\ log = <<>>

Next ==
    \/ Construct \/ Connect \/ MainEnter \/ MainEntered
    \/ Wakeup \/ WakeupDrained \/ WakeupWrite1 \/ WakeupWrite2 \/ WakeupResponse
    \/ ReadChunk \/ Command
    \/ MainTime \/ MainTimeDone \/ MainNumber \/ MainNumberDone
    \/ Clock \/ ClockReturn \/ Count \/ CountReturn \/ Clear \/ ClearReturn
    \/ MainRead \/ GenStart \/ GenClockReturn \/ GenCountReturn \/ GenFetchReturn
    \/ GenResume
    \/ MainClear \/ MainClearDone \/ MainExit \/ MainExited \/ Shutdown

Spec == Init /\ [][Next]_vars

\* main is one sequential thread: while a statement is left to run, it runs
SpecFair == Spec /\ WF_vars(Next)

-----------------------------------------------------------------------------
(* write() alone, on byte strings of every length up to MaxWriteLen        *)

\* n bytes, the k-th being (first + k - 1) * step modulo 256
Bytestring(n, first, step) == [k \in 1..n |-> ((first + k - 1) * step) % 256]

\* the joined arguments write() is called with
WriteData ==
    {Bytestring(n, first, step) : n \in 0..MaxWriteLen, first \in {0, 255}, step \in {0, 1}}

InitWrite ==
    /\ stack = <<"write">>
    /\ entered = FALSE
    /\ rxq = <<>>
    /\ device = AnyDevice
    /\ session = NewSession
    /\ data = <<>>
    /\ chunks = <<>>
    /\ nreads = 0
    /\ ret = None
    /\ exc = "none"
    /\ active = "unset"
    /\ i = 0
    /\ cmdarg \in WriteData
    /\ gen = NoGen
    /\ out = <<>>
    /\ log = <<>>

NextWrite == Write

SpecWrite == InitWrite /\ [][NextWrite]_vars

-----------------------------------------------------------------------------
(* Properties                                                              *)

\* read() has just returned to its caller: ret holds its result (or the caught
\* USBError) and data, chunks, nreads are those of the finished call
AfterRead == Top \in {"wakeup_drain", "wakeup_r", "clock_ret", "count_ret",
                      "clear_ret", "gen_fetch_ret"}

\* command() has just returned to its caller
AfterCommand == Top \in {"clock_ret", "count_ret", "clear_ret", "gen_fetch_ret"}

\* bytes 1..length of a chunk, as far as the chunk reaches
FragmentOf(c) == [k \in 1..Min(c[1], Len(c) - 1) |-> c[k + 1]]

RECURSIVE ConcatFragments(_)
ConcatFragments(cs) ==
    IF cs = <<>> THEN <<>> ELSE FragmentOf(Head(cs)) \o ConcatFragments(Tail(cs))

\* every chunk has leading length byte 7, except the last, whose byte is in 1..6
WellFormed(cs) ==
    /\ Len(cs) >= 1
    /\ \A k \in 1..Len(cs) : cs[k] # <<>>
    /\ \A k \in 1..(Len(cs) - 1) : cs[k][1] = 7
    /\ cs[Len(cs)][1] \in 1..6

StartsWithOK(b) == Len(b) >= 2 /\ b[1] = 79 /\ b[2] = 75

\* b without its first 2 bytes and without its last byte
Stripped(b) == [k \in 1..(Len(b) - 3) |-> b[k + 2]]

\* C1: when read() has consumed chunks that all have length byte 7 except a final
\* one with length byte 1..6 and their fragments, concatenated in arrival order,
\* start with "OK", it returns that concatenation without its first 2 bytes and
\* without its last byte.
C1_Reassembly ==
    (AfterRead /\ WellFormed(chunks) /\ StartsWithOK(ConcatFragments(chunks)))
        => ret = Bytes(Stripped(ConcatFragments(chunks)))

\* a three-chunk response (7, 7, 1) was reassembled into a 12-byte payload
C1_Witness ==
    /\ AfterRead
    /\ WellFormed(chunks)
    /\ Len(chunks) = 3
    /\ StartsWithOK(ConcatFragments(chunks))
    /\ ret.tag = "bytes"
    /\ Len(ret.val) = 12

\* a chunk that is empty or whose leading length byte is outside 1..7
Malformed(c) == c = <<>> \/ c[1] < 1 \/ c[1] > 7

\* C2: read() returns None, raising nothing, as soon as a chunk it reads is empty
\* or has a leading length byte outside 1..7 (wherever in the sequence, whatever
\* was accumulated), and when the reassembled buffer does not begin with "OK".
C2_DesyncIsNone ==
    /\ (chunks # <<>> /\ Malformed(chunks[Len(chunks)]))
          => (Top # "read" /\ ret = None /\ exc = "none")
    /\ (AfterRead /\ WellFormed(chunks) /\ ~StartsWithOK(ConcatFragments(chunks)))
          => (ret = None /\ exc = "none")

\* a malformed second chunk made read() drop the fragment it had accumulated
C2_Witness ==
    /\ AfterRead
    /\ Len(chunks) = 2
    /\ Malformed(chunks[2])
    /\ StartsWithOK(data)
    /\ ret = None
    /\ exc = "none"

\* the entries of the log at positions p+1.. that belong to the command at p
IsCommandAt(p) == log[p].op = "command"

\* C3: every command() performs exactly one write, of the length-prefixed
\* concatenation of its arguments, then exactly one read() with nothing between
\* them; the read is not attempted when the write fails; command() returns what
\* that read returned.
C3_CommandExchange ==
    /\ \A p \in 1..Len(log) :
         IsCommandAt(p) =>
           /\ p + 1 <= Len(log)
           /\ log[p + 1].op = "write"
           /\ log[p + 1].pkt = <<Len(log[p].pkt)>> \o log[p].pkt
           /\ IF log[p + 1].ok
              THEN /\ p + 2 <= Len(log)
                   /\ log[p + 2].op = "read"
                   /\ (p + 2 < Len(log) => IsCommandAt(p + 3))
              ELSE p + 1 = Len(log)
    /\ AfterCommand =>
         /\ Len(log) >= 3
         /\ log[Len(log)].op = "read"
         /\ log[Len(log) - 1].op = "write"
         /\ log[Len(log) - 1].ok
         /\ IsCommandAt(Len(log) - 2)
         /\ log[Len(log) - 2].pkt = cmdarg
         /\ nreads >= 1
         /\ ret = IF Malformed(chunks[Len(chunks)]) THEN None ELSE ReadResult(data)

\* count() got a payload back from its one write and one read
C3_Witness ==
    /\ Top = "count_ret"
    /\ ret.tag = "bytes"
    /\ Len(log) = 3
    /\ log[2].pkt = <<5, 67, 78, 84, 48, 48>>

\* wakeup() is running or has just returned
InWakeup == stack[1] = "main_enter_ret" /\ Top # "wakeup"

WritesIn(l) == Cardinality({k \in 1..Len(l) : l[k].op = "write"})

\* C4: wakeup() performs one drain read, then at most 10 cycles of two writes of
\* the 7 zero bytes followed by one read; a failed write ends it; once a cycle's
\* read has returned a non-empty response it has returned; never more than 20 writes.
C4_WakeupBound ==
    InWakeup =>
      /\ Len(log) >= 1
      /\ log[1].op = "read"
      /\ \A k \in 2..Len(log) :
           IF (k - 2) % 3 = 2
           THEN log[k].op = "read"
           ELSE /\ log[k].op = "write"
                /\ log[k].pkt = <<7, 0, 0, 0, 0, 0, 0, 0>>
                /\ (~log[k].ok => k = Len(log))
      /\ Len(log) <= 1 + 3 * 10
      /\ WritesIn(log) <= 20
      /\ i <= 10
      /\ (active = "true" => stack = <<"main_enter_ret">>)

\* wakeup() returned after 10 full cycles without a response
C4_Witness ==
    /\ stack = <<"main_enter_ret">>
    /\ Len(log) = 31
    /\ WritesIn(log) = 20
    /\ active # "true"

\* main ended with an exception raised by wakeup() (its log starts with the drain read)
RaisedInWakeup ==
    /\ stack = <<"raised">>
    /\ ~entered
    /\ Len(log) >= 1
    /\ log[1].op = "read"

\* C5 as stated: wakeup() never raises a transport error.
C5_NeverRaises == ~(RaisedInWakeup /\ exc = "USBError")

\* C5 amended: a USBError of any read of wakeup() (the drain, an iteration's read)
\* is swallowed and wakeup() returns normally even when every read fails; the only
\* transport error wakeup() lets through is that of one of its writes.
C5_ReadErrorsSwallowed ==
    /\ RaisedInWakeup =>
         /\ exc = "USBError"
         /\ log[Len(log)].op = "write"
         /\ ~log[Len(log)].ok
    /\ (InWakeup /\ ret = Caught) =>
         (exc = "none" /\ Top \in {"wakeup_drain", "wakeup_r", "main_enter_ret"})
    /\ stack = <<"main_enter_ret">> => exc = "none"

\* wakeup() returned normally after its 10th read failed like the others before it
C5_Witness ==
    /\ stack = <<"main_enter_ret">>
    /\ ret = Caught
    /\ i = 10
    /\ Len(log) = 31
    /\ exc = "none"

\* C6: when wakeup() has returned the active flag has a value, true exactly when a
\* wake iteration got a non-empty response and false otherwise.
C6_ActiveReadable ==
    stack = <<"main_enter_ret">> =>
      /\ active \in {"true", "false"}
      /\ (active = "true") <=> Truthy(ret)

EndWriteIn(l) ==
    \E k \in 1..Len(l) : l[k].op = "write" /\ l[k].pkt = <<5, 69, 78, 68, 48, 48>>

\* C7: once the body of the with block was entered, main does not end, normally
\* or by an exception, without a write of END00 having been attempted.
C7_ShutdownOnEveryExit ==
    (entered /\ stack \in {<<"done">>, <<"raised">>}) => EndWriteIn(log)

\* an exception ended the iteration after a record was yielded and before all were
C7_Witness ==
    /\ stack = <<"raised">>
    /\ entered
    /\ exc # "none"
    /\ Len(out) >= 1
    /\ Len(out) < gen.n
    /\ EndWriteIn(log)

\* C8: when shutdown() is over, with the write done or failed, the session is
\* inactive and shutdown() has made exactly one transport call, the write of END00.
C8_Shutdown ==
    (entered /\ stack \in {<<"main_exit_ret">>, <<"done">>, <<"raised">>}) =>
      /\ active = "false"
      /\ Len(log) = 1
      /\ log[1].op = "write"
      /\ log[1].pkt = <<5, 69, 78, 68, 48, 48>>

\* the write of END00 failed and the session is inactive all the same
C8_Witness ==
    /\ stack = <<"raised">>
    /\ entered
    /\ Len(log) = 1
    /\ log[1].op = "write"
    /\ ~log[1].ok
    /\ active = "false"

IsFetch(e) == e.op = "command" /\ Len(e.pkt) = 7 /\ SubSeq(e.pkt, 1, 3) = <<77, 69, 83>>
FetchesIn(l) == SelectSeq(l, IsFetch)
CountQueriesIn(l) ==
    Cardinality({k \in 1..Len(l) : l[k].op = "command" /\ l[k].pkt = <<67, 78, 84, 48, 48>>})

\* C9: with count n reported, a full iteration of measurements() has issued the n
\* fetch commands MES 0 0 k k for k = 0..n-1 in this order, yielded n values, the
\* k-th after the k-th fetch, and queried the count once.
C9_CountRecords ==
    /\ (stack = <<"main_for">> /\ gen.pc = "yielded") =>
         /\ gen.index < gen.n
         /\ Len(out) = gen.index + 1
         /\ Len(FetchesIn(log)) = gen.index + 1
         /\ log[Len(log) - 2].pkt = <<77, 69, 83, 0, 0, gen.index, gen.index>>
         /\ out[Len(out)].systolic = ret.val[10]
         /\ CountQueriesIn(log) = 1
    /\ (stack = <<"main_clear">> /\ gen.pc = "done") =>
         /\ gen.n \in 0..255
         /\ Len(FetchesIn(log)) = gen.n
         /\ \A k \in 1..gen.n :
              FetchesIn(log)[k].pkt = <<77, 69, 83, 0, 0, k - 1, k - 1>>
         /\ Len(out) = gen.n
         /\ CountQueriesIn(log) = 1

\* a device holding 2 records was read to the end
C9_Witness ==
    /\ stack = <<"main_clear">>
    /\ gen.pc = "done"
    /\ gen.n = 2
    /\ Len(out) = 2
    /\ Len(FetchesIn(log)) = 2

\* payload bytes 1..6 (year, month, day, hour, minute, second) are no calendar date
InvalidDate(p) == ~ValidDateTime(2000 + p[2], p[3], p[4], p[5], p[6], p[7])

\* C10: a record whose date bytes are no valid date is yielded all the same, with
\* no time, no offset added, and systolic, diastolic, pulse = payload bytes 9, 10,
\* 11; decoding a record raises only when its payload has less than 12 bytes.
C10_InvalidDateTolerated ==
    /\ (stack = <<"main_for">> /\ gen.pc = "yielded" /\ InvalidDate(ret.val)) =>
         LET m == out[Len(out)]
         IN  /\ ~m.hasTime
             /\ m.time = 0
             /\ m.systolic = ret.val[10]
             /\ m.diastolic = ret.val[11]
             /\ m.pulse = ret.val[12]
    /\ (stack = <<"main_exit">> /\ ret.tag = "bytes") => Len(ret.val) < 12

\* with a non-zero offset in force, a second record with an invalid date was
\* yielded after a first one with an invalid date
C10_Witness ==
    /\ stack = <<"main_for">>
    /\ gen.pc = "yielded"
    /\ gen.correct
    /\ gen.offset # 0
    /\ Len(out) = 2
    /\ ~out[1].hasTime
    /\ InvalidDate(ret.val)
    /\ ret.val[4] = 0

\* the date bytes 1..6 of a record's payload as a device-local time
DeviceTime(p) == ToSeconds(2000 + p[2], p[3], p[4], p[5], p[6], p[7])

\* positions of the log holding the command c
CommandsOf(l, c) == {k \in 1..Len(l) : l[k].op = "command" /\ l[k].pkt = c}

\* positions of the log holding a fetch command
FetchPositions(l) == {k \in 1..Len(l) : IsFetch(l[k])}

\* a record was just yielded to the loop of main
AtYield == stack = <<"main_for">> /\ gen.pc = "yielded"

\* at every yield: with correct_time, one GCL00 exchange was made, first of all,
\* before the count query and the fetches, and a record with a valid date is
\* reported as its device time plus (host time - device clock); without
\* correct_time no GCL00 was issued and the device time is reported as it is
C11_AtYield ==
    AtYield =>
      LET m == out[Len(out)]
          gcl == CommandsOf(log, <<71, 67, 76, 48, 48>>)
          cnt == CommandsOf(log, <<67, 78, 84, 48, 48>>)
      IN  /\ gen.correct =>
                /\ gcl = {1}
                /\ \A c \in cnt : c > 1
                /\ \A f \in FetchPositions(log) : \A c \in cnt : f > c
                /\ gen.now \in Nows
                /\ ~InvalidDate(ret.val) =>
                      /\ m.hasTime
                      /\ m.time = DeviceTime(ret.val) + (gen.now - gen.clock)
          /\ ~gen.correct =>
                /\ gcl = {}
                /\ ~InvalidDate(ret.val) =>
                      /\ m.hasTime
                      /\ m.time = DeviceTime(ret.val)

\* once a record was yielded, the operands of the offset and the offset stay what
\* they are, and what was yielded is not changed
C11_OffsetFixed ==
    Len(out) >= 1 =>
      /\ gen'.now = gen.now
      /\ gen'.clock = gen.clock
      /\ gen'.offset = gen.offset
      /\ gen'.correct = gen.correct
      /\ Len(out') >= Len(out)
      /\ SubSeq(out', 1, Len(out)) = out

\* C11: with correct_time, every yielded measurement with a valid device time T_m
\* is reported as T_m + (T_h - T_d) in whole seconds, the offset being computed
\* once, by one GCL00 exchange before the count query and every fetch, and the
\* same for every record; without correct_time no GCL00 is issued and T_m is
\* reported unchanged.
C11_OffsetCorrection == []C11_AtYield /\ [][C11_OffsetFixed]_vars

\* two records with valid dates were yielded under an offset of 150 seconds
C11_Witness ==
    /\ AtYield
    /\ gen.correct
    /\ gen.now - gen.clock = 150
    /\ Len(out) = 2
    /\ out[1].hasTime
    /\ out[2].hasTime
    /\ out[2].time = DeviceTime(ret.val) + 150
    /\ out[1].time # out[2].time

\* write() is over, by its return or by an exception
WriteOver == stack \in {<<"write_ret">>, <<"raised">>}

\* C12: write(C) with len(C) < 256 makes exactly one transfer, of len(C)+1 bytes,
\* the first being len(C) and the rest C; with len(C) >= 256 it fails and nothing
\* is transferred.
C12_CommandEncoding ==
    WriteOver =>
      IF Len(cmdarg) < 256
      THEN /\ Len(log) = 1
           /\ log[1].op = "write"
           /\ Len(log[1].pkt) = Len(cmdarg) + 1
           /\ log[1].pkt[1] = Len(cmdarg)
           /\ \A k \in 1..Len(cmdarg) : log[1].pkt[k + 1] = cmdarg[k]
           /\ session.last = log[1]
           /\ session.prev.op = "none"
           /\ exc = (IF log[1].ok THEN "none" ELSE "USBError")
      ELSE /\ log = <<>>
           /\ session.last.op = "none"
           /\ rxq = <<>>
           /\ stack = <<"raised">>
           /\ exc \in {"AssertionError", "ValueError"}

\* the longest byte string write() accepts went out behind its length byte 255
C12_Witness ==
    /\ stack = <<"write_ret">>
    /\ Len(cmdarg) = 255
    /\ cmdarg[255] = 254
    /\ log[1].pkt[1] = 255
    /\ log[1].pkt[256] = 254

\* the values of a set of returned values, and those of the calls made with
\* nothing unread on the IN endpoint
ValuesOf(rs) == {r.v : r \in rs}
SyncedValuesOf(rs) == {r.v : r \in {x \in rs : x.sync}}

\* C13: with a device whose stored count and clock do not change, all calls of
\* count() in a session return the same value and so do all calls of clock(),
\* whatever the session did before them (no clear() comes between them).
C13_AnyTwoCalls ==
    device.static =>
      /\ Cardinality(ValuesOf(session.counts)) <= 1
      /\ Cardinality(ValuesOf(session.clocks)) <= 1

\* what does hold: the calls made while no chunk waits unread on the IN endpoint
\* return what the device stores
SyncedCallsAgree ==
    device.static =>
      /\ ~session.cleared => SyncedValuesOf(session.counts) \subseteq {device.count}
      /\ SyncedValuesOf(session.clocks)
            \subseteq {ToSeconds(2024, 3, 15, 10, device.minute, 0)}

\* the two most recent transfers of the session are both writes
TwoWritesInARow == session.last.op = "write" /\ session.prev.op = "write"

\* C14 as stated: over the whole session no two writes are issued without a
\* response read between them.
C14_StrictAlternation == ~TwoWritesInARow

\* C14 amended: a command that was written is followed by a read before anything
\* else is written; two writes follow each other without a read only as the two
\* zero packets of one wakeup cycle, or when the first of them failed and the
\* second is the END00 of shutdown; nothing is read after END00.
C14_AlternationOfCommands ==
    /\ TwoWritesInARow =>
         \/ /\ session.prev.pkt = <<7, 0, 0, 0, 0, 0, 0, 0>>
            /\ session.last.pkt = <<7, 0, 0, 0, 0, 0, 0, 0>>
            /\ session.prev.ok
            /\ ~entered
            /\ \/ (Top = "read" /\ nreads = 0 /\ stack[Len(stack) - 1] = "wakeup_r")
               \/ (stack = <<"raised">> /\ ~session.last.ok)
         \/ /\ ~session.prev.ok
            /\ session.last.pkt = <<5, 69, 78, 68, 48, 48>>
            /\ entered
    /\ (session.last.op = "write" /\ session.last.ok) =>
         \/ (Top = "read" /\ nreads = 0)
         \/ (Top = "wakeup_w2" /\ session.last.pkt = <<7, 0, 0, 0, 0, 0, 0, 0>>)
         \/ session.last.pkt = <<5, 69, 78, 68, 48, 48>>
    /\ session.prev.pkt # <<5, 69, 78, 68, 48, 48>>

\* both zero packets of a wakeup cycle were written and its read is about to start
C14_Witness ==
    /\ TwoWritesInARow
    /\ session.prev.ok
    /\ session.last.ok
    /\ session.last.pkt = <<7, 0, 0, 0, 0, 0, 0, 0>>
    /\ Top = "read"
    /\ i = 2

\* the log holds one complete connect sequence: the driver detached when it was
\* active, then set_configuration, then the control transfer, none of them failed
ConnectedOnce(l) ==
    /\ \/ (Len(l) = 3 /\ l[1].op = "detach_kernel_driver"
             /\ l[2].op = "set_configuration" /\ l[3].op = "ctrl_transfer")
       \/ (Len(l) = 2 /\ l[1].op = "set_configuration" /\ l[2].op = "ctrl_transfer")
    /\ \A k \in 1..Len(l) : l[k].ok

\* C15: in main the connect sequence runs once and is complete before wakeup()
\* starts and before any transfer on the endpoints; only the zero packets of
\* wakeup() are written before __enter__ has returned, every command after it;
\* and when the session is over the END00 write of shutdown was its last transfer.
C15_LifecycleOrder ==
    /\ session.nconnect <= 1
    /\ stack = <<"main_enter">> =>
         (ConnectedOnce(log) /\ session.nconnect = 1 /\ session.last.op = "none")
    /\ stack[1] \in ({"main_enter_ret", "main_exit", "main_exit_ret", "done"} \cup BodyFrames)
         => session.nconnect = 1
    /\ session.last.op # "none" => session.nconnect = 1
    /\ (session.last.op = "write" /\ ~entered) =>
         session.last.pkt = <<7, 0, 0, 0, 0, 0, 0, 0>>
    /\ (session.prev.op = "write" /\ ~entered) =>
         session.prev.pkt = <<7, 0, 0, 0, 0, 0, 0, 0>>
    /\ (\E k \in 1..Len(log) : log[k].op = "command") => entered
    /\ InWakeup => ~entered
    /\ (entered /\ stack \in {<<"done">>, <<"raised">>}) =>
         (session.last.op = "write" /\ session.last.pkt = <<5, 69, 78, 68, 48, 48>>)
    /\ session.prev.op = "write" => session.prev.pkt # <<5, 69, 78, 68, 48, 48>>

\* a session that woke the device, read its records and cleared them has ended
C15_Witness ==
    /\ stack = <<"done">>
    /\ session.nconnect = 1
    /\ active = "false"
    /\ Len(out) = 2
    /\ session.cleared
    /\ session.last.pkt = <<5, 69, 78, 68, 48, 48>>
    /\ session.prev.op = "read"

\* commands issued since the next() now running, or the latest one, was called
CommandsSinceNext ==
    Cardinality({k \in (gen.mark + 1)..Len(log) : log[k].op = "command"})
FetchesSinceNext ==
    Cardinality({k \in (gen.mark + 1)..Len(log) : IsFetch(log[k])})

\* C16 as stated: each next() performs one device round trip.
C16_OneRoundTripPerNext ==
    /\ AtYield => CommandsSinceNext = 1
    /\ (stack = <<"main_clear">> /\ gen.pc = "done") => CommandsSinceNext = 1

\* C16 amended: calling measurements() transfers nothing; never were more records
\* fetched than next() was called; the next() that yields record i has issued one
\* fetch, that of record i; besides it the first next() has issued the count query
\* and, with correct_time, the clock query, and the next() that ends the sequence
\* has issued no fetch.
C16_LazyFetches ==
    /\ (stack = <<"main_for">> /\ gen.pc = "start") =>
         (log = <<>> /\ gen.nexts = 0 /\ out = <<>>)
    /\ stack[1] = "main_for" =>
         /\ Len(FetchesIn(log)) <= gen.nexts
         /\ (log # <<>> => gen.nexts >= 1)
         /\ Len(out) <= Len(FetchesIn(log))
    /\ AtYield =>
         /\ gen.nexts = gen.index + 1
         /\ Len(FetchesIn(log)) = gen.nexts
         /\ Len(out) = gen.nexts
         /\ FetchesSinceNext = 1
         /\ log[Len(log) - 2].pkt = <<77, 69, 83, 0, 0, gen.index, gen.index>>
         /\ CommandsSinceNext =
              (IF gen.nexts = 1 THEN (IF gen.correct THEN 3 ELSE 2) ELSE 1)
    /\ (stack = <<"main_clear">> /\ gen.pc = "done") =>
         /\ gen.nexts = gen.n + 1
         /\ FetchesSinceNext = 0
         /\ CommandsSinceNext =
              (IF gen.nexts = 1 THEN (IF gen.correct THEN 2 ELSE 1) ELSE 0)

\* the second next() yielded the second record after one round trip of its own
C16_Witness ==
    /\ AtYield
    /\ gen.nexts = 2
    /\ Len(out) = 2
    /\ CommandsSinceNext = 1
    /\ FetchesSinceNext = 1
    /\ gen.n = 2

\* the iteration of measurements() was ended by an exception, and main has not yet
\* gone on to __exit__
IterationFailed == stack = <<"main_exit">> /\ gen.raised

\* once an exception has ended the iteration it is on its way out of main, never
\* taken for the end of the sequence; when a fetch was the last command issued,
\* it is the fetch of record gen.index, the records before it were yielded and
\* none for it; and clock() and count() have returned a value only as a number
C17_AtFailure ==
    /\ gen.raised =>
         /\ exc # "none"
         /\ gen.pc = "done"
         /\ stack[1] \in {"main_exit", "main_exit_ret", "raised"}
    /\ (IterationFailed /\ FetchesIn(log) # <<>>) =>
         /\ Len(FetchesIn(log)) = gen.index + 1
         /\ FetchesIn(log)[gen.index + 1].pkt = <<77, 69, 83, 0, 0, gen.index, gen.index>>
         /\ Len(out) = gen.index
         /\ gen.index < gen.n
    /\ (IterationFailed /\ FetchesIn(log) = <<>>) => out = <<>>
    /\ Top \in {"main_time_ret", "main_number_ret", "gen_clock_ret", "gen_count_ret"}
         => ret.tag = "num"

\* a fetch, clock() or count() whose read gave no response raises TypeError, and a
\* transport error during the iteration leaves it: nothing is yielded, nothing
\* more fetched, and main goes to __exit__
C17_FailureStep ==
    /\ (Top \in {"gen_fetch_ret", "clock_ret", "count_ret"} /\ ret.tag = "None") =>
         /\ exc' = "TypeError"
         /\ out' = out
         /\ log' = log
         /\ stack' = <<"main_exit">>
    /\ (stack[1] = "main_for" /\ exc = "none" /\ exc' # "none") =>
         /\ out' = out
         /\ gen'.raised
         /\ gen'.index = gen.index
         /\ stack' = <<"main_exit">>
    /\ gen.raised => (out' = out /\ gen' = gen)

\* C17: when the fetch of record i ends without a response or with a transport
\* error, records 0..i-1 have been yielded, nothing is yielded for record i, no
\* later record is fetched, and the consumer gets an exception, not the end of
\* the sequence; clock() and count() raise when there is no response.
C17_FailuresAbort == []C17_AtFailure /\ [][C17_FailureStep]_vars

\* the fetch of the second of two records got no response: TypeError
C17_Witness ==
    /\ IterationFailed
    /\ exc = "TypeError"
    /\ ret = None
    /\ gen.n = 2
    /\ gen.index = 1
    /\ Len(out) = 1
    /\ Len(FetchesIn(log)) = 2

\* read() was called by wakeup(), inside one of its try blocks
ReadInWakeup == Len(stack) >= 2 /\ stack[Len(stack) - 1] \in {"wakeup_drain", "wakeup_r"}

\* what read() and command() have returned came from chunks alone: every transfer
\* of the call delivered one, and None stands for a malformed chunk or a missing
\* OK marker; a failed transfer shows only in wakeup(), as the caught exception
C18_ReturnsAreResponses ==
    /\ AfterCommand =>
         /\ nreads >= 1
         /\ nreads = Len(chunks)
         /\ ret.tag \in {"None", "bytes"}
         /\ ret = None =>
              \/ Malformed(chunks[Len(chunks)])
              \/ ~StartsWithOK(ConcatFragments(chunks))
    /\ (AfterRead /\ ret # Caught) => nreads = Len(chunks)
    /\ (AfterRead /\ ret = Caught) =>
         (nreads = Len(chunks) + 1 /\ Top \in {"wakeup_drain", "wakeup_r"})
    /\ exc = "USBError" => ~AfterRead

\* a transfer that fails outside wakeup() raises USBError: nothing is returned and
\* the exception leaves the with body
C18_FailureStep ==
    /\ (Top = "read" /\ ~ReadInWakeup /\ chunks' = chunks /\ nreads' = nreads + 1) =>
         /\ ~session'.last.ok
         /\ exc' = "USBError"
         /\ ret' = ret
         /\ stack' = <<"main_exit">>
    /\ (Top = "command" /\ session'.last.op = "write" /\ ~session'.last.ok) =>
         /\ exc' = "USBError"
         /\ ret' = ret
         /\ nreads' = nreads
         /\ stack' = <<"main_exit">>

\* C18: outside wakeup() a USBError of the underlying read or write propagates
\* out of read(), write() and command(); read() and command() never return None
\* or a payload for a failed transfer, and return None only for an empty or
\* malformed chunk or a missing OK marker.
C18_TransportFailureDistinct ==
    []C18_ReturnsAreResponses /\ [][C18_FailureStep]_vars

\* the second transfer of a command's read failed after a full chunk had arrived
C18_Witness ==
    /\ stack = <<"main_exit">>
    /\ exc = "USBError"
    /\ session.last.op = "read"
    /\ ~session.last.ok
    /\ Len(chunks) = 1
    /\ nreads = 2
    /\ ret = None

-----------------------------------------------------------------------------
(* C19                                                                     *)

\* the read phase of main ran to its end: the generator finished without an
\* exception after yielding as many records as count() had returned
ReadComplete == gen.pc = "done" /\ ~gen.raised /\ Len(out) = gen.n

\* MCL00 was written only without a read phase or after a complete one, and an
\* exception that is not the clear's own has kept MCL00 from being written
C19_ClearedAfterRead ==
    /\ session.cleared => (gen.pc = "none" \/ ReadComplete)
    /\ gen.raised => (~session.cleared /\ exc # "none")
    /\ (gen.pc \in {"start", "running", "yielded"}) => ~session.cleared
    /\ (gen.raised /\ stack \in {<<"done">>, <<"raised">>}) =>
         (stack = <<"raised">> /\ WritesIn(log) = 1 /\ EndWriteIn(log))

\* once the read phase has failed the only packet written is END00
C19_WriteStep ==
    /\ (session'.last.op = "write" /\ session'.last.pkt = Packet(MCL00)
          /\ session' # session) =>
         (Top = "command" /\ stack[1] = "main_clear_ret"
            /\ (gen.pc = "none" \/ ReadComplete))
    /\ (gen.raised /\ session'.last.op = "write" /\ session' # session) =>
         (session'.last.pkt = Packet(END00) /\ Top = "shutdown")

\* C19: with the read and clear options MCL00 is written only after every one of
\* the count records has been fetched and yielded; when the read phase fails,
\* MCL00 is not written in the session and the only later write is END00.
C19_ClearOnlyAfterCompleteRead ==
    []C19_ClearedAfterRead /\ [][C19_WriteStep]_vars

\* MCL00 has just been written after both records of the device were yielded
C19_Witness ==
    /\ stack[1] = "main_clear_ret"
    /\ session.last.op = "write"
    /\ session.last.pkt = Packet(MCL00)
    /\ session.cleared
    /\ gen.n = 2
    /\ Len(out) = 2

-----------------------------------------------------------------------------
(* C20                                                                     *)

\* a chunk after which the loop of read() goes on: leading length byte 7
FullChunk(c) == c # <<>> /\ c[1] = 7

AllFull(cs, n) == \A k \in 1..n : FullChunk(cs[k])

\* the latest transfer was a read that failed
ReadFailed == session.last.op = "read" /\ ~session.last.ok

\* while read() runs it has made one transfer per chunk, all with length byte 7;
\* when it has returned, the last chunk is the only one that is empty or has
\* another length byte; when a transfer failed, the chunks before it were full
C20_Consumed ==
    /\ Top = "read" => (nreads = Len(chunks) /\ AllFull(chunks, Len(chunks)))
    /\ (AfterRead /\ ret # Caught) =>
         /\ nreads = Len(chunks)
         /\ nreads >= 1
         /\ AllFull(chunks, Len(chunks) - 1)
         /\ ~FullChunk(chunks[Len(chunks)])
    /\ (AfterRead /\ ret = Caught) =>
         (ReadFailed /\ nreads = Len(chunks) + 1 /\ AllFull(chunks, Len(chunks)))
    /\ (stack = <<"main_exit">> /\ exc = "USBError" /\ ReadFailed) =>
         (nreads = Len(chunks) + 1 /\ AllFull(chunks, Len(chunks)))

\* a turn of the loop takes the chunk at the head of the IN queue and no other;
\* read() goes on after it exactly when it is full; nothing but read() takes chunks
C20_ReadStep ==
    /\ Top = "read" =>
         \/ (rxq' = rxq /\ chunks' = chunks /\ stack' # stack /\ session'.last.ok = FALSE)
         \/ /\ rxq # <<>>
            /\ rxq' = Tail(rxq)
            /\ chunks' = Append(chunks, Head(rxq))
            /\ (stack' = stack) = FullChunk(Head(rxq))
            /\ stack' # stack => stack' = Pop(stack)
    /\ Top # "read" =>
         (Len(rxq') >= Len(rxq) /\ Slice(rxq', 0, Len(rxq)) = rxq)

\* C20: read() takes chunks up to and including the first one that is empty or
\* whose length byte is not 7 and none after it, so that it has made (number of
\* leading full chunks + 1) transfers when it returns or raises; a read() that
\* has started ends.
C20_ReadConsumption ==
    /\ []C20_Consumed
    /\ [][C20_ReadStep]_vars
    /\ (Top = "read") ~> (Top # "read")

\* read() returned on a final chunk and left the chunk queued behind it unread
C20_Witness ==
    /\ AfterRead
    /\ nreads = 1
    /\ chunks = << <<4, 79, 75, 1, 0>> >>
    /\ rxq = << <<3, 79, 75, 0>> >>

====
